---- MODULE Spec2Model ----
(***************************************************************************)
(* cc-emitter: a one-shot command line program that parses "<CC>:<value>"  *)
(* tokens out of a data string and sends one MIDI Control Change message   *)
(* per pair to every (matching) output port, on one or on all 16 channels. *)
(*                                                                         *)
(* Strings are modelled as sequences of one-character strings.  An Option  *)
(* is modelled as a sequence of length 0 (None) or 1 (Some(x)).            *)
(***************************************************************************)
EXTENDS Integers, Sequences, FiniteSets, TLC

VARIABLES
    opts,       \* Opts: [data, channel, port_filter] (program arguments)
    data,       \* Vec<(u8, u8)>: the parsed (CC, value) pairs
    pc,         \* position of main
    panicMsg,   \* which panic!/expect ended the process ("" while it runs)
    platform,   \* the platform's current list of output ports (device ids)
    raced,      \* whether the port list changed after the port-count query
    count,      \* output.port_count(), evaluated once for the range 0..count
    port,       \* the loop variable of `for port in 0..count`
    name,       \* Option: the name resolved for the current port
    conn,       \* Option: the device the open MidiOutputConnection leads to
    todo,       \* channels do_conn has still to hand to do_channel
    k,          \* 1-based position of do_channel's loop in data
    log,        \* every message handed to conn.send, in order
    visited,    \* per finished port index: how its iteration ended and the
                \* name that was resolved
    errs        \* the kinds of eprintln! diagnostics written so far

vars == <<opts, data, pc, panicMsg, platform, raced, count, port, name, conn,
          todo, k, log, visited, errs>>

----------------------------------------------------------------------------
\* Bounds of the model.

\* longest data string drawn by the parser specification
MaxLen == 7
\* most CC pairs in a data string drawn by the main specification
MaxPairs == 2
\* most ports the platform lists at one time (and number of known devices)
MaxPorts == 2
\* largest channel argument drawn
MaxChannelArg == 17

----------------------------------------------------------------------------
\* Program constants.

CONTROL_CHANGE_PREFIX == 176
NumChannels == 16
MaxChannelNumber == 16
U8_MAX == 255

None == <<>>
Some(x) == <<x>>

----------------------------------------------------------------------------
\* Characters and strings.

Colon == ":"

\* the characters of the data strings drawn by the parser specification
Alphabet == {"0", "2", "5", Colon, " "}

IsDigit(c) == c \in {"0", "1", "2", "3", "4", "5", "6", "7", "8", "9"}

DigitVal(c) ==
    CASE c = "0" -> 0 [] c = "1" -> 1 [] c = "2" -> 2 [] c = "3" -> 3
      [] c = "4" -> 4 [] c = "5" -> 5 [] c = "6" -> 6 [] c = "7" -> 7
      [] c = "8" -> 8 [] c = "9" -> 9

\* the decimal digits of isize::MAX (64-bit target)
ISIZE_MAX_DIGITS ==
    <<"9","2","2","3","3","7","2","0","3","6","8","5","4","7","7","5","8","0","7">>

RECURSIVE StripZeros(_)
StripZeros(s) ==
    IF Len(s) > 1 /\ Head(s) = "0" THEN StripZeros(Tail(s)) ELSE s

\* lexicographic s > t for digit strings of equal length
RECURSIVE DigitsGreater(_, _)
DigitsGreater(s, t) ==
    IF s = <<>> THEN FALSE
    ELSE IF DigitVal(Head(s)) # DigitVal(Head(t))
         THEN DigitVal(Head(s)) > DigitVal(Head(t))
         ELSE DigitsGreater(Tail(s), Tail(t))

RECURSIVE DecVal(_)
DecVal(s) ==
    IF s = <<>> THEN 0
    ELSE 10 * DecVal(SubSeq(s, 1, Len(s) - 1)) + DigitVal(s[Len(s)])

\* s.parse::<isize>() on a string of ASCII digits: Err on overflow only
ParseIsize(s) ==
    LET sig == StripZeros(s) IN
    IF Len(sig) > Len(ISIZE_MAX_DIGITS)
       \/ (Len(sig) = Len(ISIZE_MAX_DIGITS) /\ DigitsGreater(sig, ISIZE_MAX_DIGITS))
    THEN [ok |-> FALSE, val |-> 0]
    ELSE [ok |-> TRUE, val |-> DecVal(sig)]

\* str_to_u8 with the range check forgotten: the cast to u8 wraps
str_to_u8_wrapping(s) ==
    LET i == ParseIsize(s) IN
    IF ~i.ok THEN [ok |-> FALSE, msg |-> "could not be parsed", val |-> 0]
    ELSE [ok |-> TRUE, msg |-> "", val |-> i.val % 256]

\* the closure str_to_u8: the byte, or the panic it raises
str_to_u8(s) ==
    LET i == ParseIsize(s) IN
    IF ~i.ok THEN [ok |-> FALSE, msg |-> "could not be parsed", val |-> 0]
    ELSE IF i.val < 0 \/ i.val > U8_MAX
         THEN [ok |-> FALSE, msg |-> "out of range", val |-> 0]
         ELSE [ok |-> TRUE, msg |-> "", val |-> i.val % 256]

\* end (exclusive) of the maximal run of digits of s that starts at i
RECURSIVE DigitRunEnd(_, _)
DigitRunEnd(s, i) ==
    IF i <= Len(s) /\ IsDigit(s[i]) THEN DigitRunEnd(s, i + 1) ELSE i

\* the regex with a lazy value group, ([0-9]+):([0-9]+?): one digit of value
MatchAt_lazy(s, i) ==
    LET j == DigitRunEnd(s, i)
    IN  IF j > i /\ j < Len(s) /\ s[j] = Colon /\ IsDigit(s[j + 1])
        THEN [found |-> TRUE, cc |-> SubSeq(s, i, j - 1),
              value |-> SubSeq(s, j + 1, j + 1), end |-> j + 2]
        ELSE [found |-> FALSE, cc |-> <<>>, value |-> <<>>, end |-> i]

\* the regex anchored to the start of the string or to a space before the
\* token, (?:^| )([0-9]+):([0-9]+): tokens taken as space-separated words
MatchAt_after_space(s, i) ==
    LET j == DigitRunEnd(s, i)
        e == DigitRunEnd(s, j + 1)
    IN  IF (i = 1 \/ s[i - 1] = " ")
           /\ j > i /\ j <= Len(s) /\ s[j] = Colon /\ e > j + 1
        THEN [found |-> TRUE, cc |-> SubSeq(s, i, j - 1),
              value |-> SubSeq(s, j + 1, e - 1), end |-> e]
        ELSE [found |-> FALSE, cc |-> <<>>, value |-> <<>>, end |-> i]

\* cc_regex ([0-9]+):([0-9]+) anchored at position i: the two groups and
\* the end of the match, or no match
MatchAt(s, i) ==
    LET j == DigitRunEnd(s, i)
        e == DigitRunEnd(s, j + 1)
    IN  IF j > i /\ j <= Len(s) /\ s[j] = Colon /\ e > j + 1
        THEN [found |-> TRUE, cc |-> SubSeq(s, i, j - 1),
              value |-> SubSeq(s, j + 1, e - 1), end |-> e]
        ELSE [found |-> FALSE, cc |-> <<>>, value |-> <<>>, end |-> i]

\* cc_regex.captures_iter(s): leftmost non-overlapping matches from i on,
\* each with its two groups and its span [start, end)
RECURSIVE captures_iter(_, _)
captures_iter(s, i) ==
    IF i > Len(s) THEN <<>>
    ELSE LET m == MatchAt(s, i) IN
         IF m.found
         THEN <<[cc |-> m.cc, value |-> m.value, start |-> i, end |-> m.end]>>
              \o captures_iter(s, m.end)
         ELSE captures_iter(s, i + 1)

\* .map(|cap| (str_to_u8(cc), str_to_u8(value))).collect(): the pairs, or the
\* first panic met (cc is converted before value, captures left to right)
RECURSIVE CollectPairs(_)
CollectPairs(caps) ==
    IF caps = <<>> THEN [ok |-> TRUE, msg |-> "", pairs |-> <<>>]
    ELSE LET c == str_to_u8(Head(caps).cc)
             v == str_to_u8(Head(caps).value)
             rest == CollectPairs(Tail(caps))
         IN  IF ~c.ok THEN [ok |-> FALSE, msg |-> c.msg, pairs |-> <<>>]
             ELSE IF ~v.ok THEN [ok |-> FALSE, msg |-> v.msg, pairs |-> <<>>]
             ELSE IF ~rest.ok THEN rest
             ELSE [ok |-> TRUE, msg |-> "",
                   pairs |-> <<<<c.val, v.val>>>> \o rest.pairs]

ParsePairs(s) == CollectPairs(captures_iter(s, 1))

----------------------------------------------------------------------------
\* The platform (the MIDI library and the operating system behind it).

Devices == 1 .. MaxPorts

\* the display name the platform reports for a device
DeviceName(d) == IF d % 2 = 1 THEN <<"a", "b">> ELSE <<"b", "a">>

\* every port list the platform can hold: devices without repetition
PortLists ==
    UNION { { l \in [1 .. n -> Devices] :
                \A i, j \in 1 .. n : i # j => l[i] # l[j] } : n \in 0 .. MaxPorts }

\* output.port_name(port): the name of the device now at that index, or
\* an error (always an error when the index is past the end of the list)
PortNameResults(p) ==
    {[ok |-> FALSE, name |-> <<>>]} \cup
    (IF p < Len(platform)
     THEN {[ok |-> TRUE, name |-> DeviceName(platform[p + 1])]}
     ELSE {})

\* current_output.connect(port, ..): a connection to the device now at that
\* index, or an error (always an error when the index is past the end)
ConnectResults(p) ==
    {[ok |-> FALSE, dev |-> 0]} \cup
    (IF p < Len(platform)
     THEN {[ok |-> TRUE, dev |-> platform[p + 1]]}
     ELSE {})

\* name.contains(filter): substring test
Contains(n, f) ==
    \E i \in 1 .. Len(n) + 1 :
        i + Len(f) - 1 <= Len(n) /\ SubSeq(n, i, i + Len(f) - 1) = f

----------------------------------------------------------------------------
\* The pure parts of do_conn and do_channel.

\* bitwise OR of two bytes
RECURSIVE BitOr(_, _)
BitOr(a, b) ==
    IF a = 0 THEN b
    ELSE IF b = 0 THEN a
    ELSE (IF a % 2 = 1 \/ b % 2 = 1 THEN 1 ELSE 0) + 2 * BitOr(a \div 2, b \div 2)

\* the message with its two data bytes in the wrong order
Message_swapped(channel, cc, value) ==
    <<BitOr(CONTROL_CHANGE_PREFIX, channel) % 256, value, cc>>

\* &[CONTROL_CHANGE_PREFIX | channel, *cc, *value]
Message(channel, cc, value) ==
    <<BitOr(CONTROL_CHANGE_PREFIX, channel) % 256, cc, value>>

\* the match without the conversion to zero-based indexing
ChannelOf_unshifted(specified_channel) ==
    IF specified_channel = 0 THEN [ok |-> TRUE, channel |-> 0]
    ELSE IF specified_channel >= 1 /\ specified_channel <= MaxChannelNumber
         THEN [ok |-> TRUE, channel |-> specified_channel % 256]
         ELSE [ok |-> FALSE, channel |-> 0]

\* the match on specified_channel: the zero-based channel, or the panic
ChannelOf(specified_channel) ==
    IF specified_channel = 0 THEN [ok |-> TRUE, channel |-> 0]
    ELSE IF specified_channel >= 1 /\ specified_channel <= MaxChannelNumber
         THEN [ok |-> TRUE, channel |-> (specified_channel - 1) % 256]
         ELSE [ok |-> FALSE, channel |-> 0]

\* the range written one-based, (1u8..=16)
AllChannels_from1 == [i \in 1 .. NumChannels |-> i]

\* (0u8..16): all channels in ascending order
AllChannels == [i \in 1 .. NumChannels |-> i - 1]

\* the channels do_conn hands to do_channel, in order, or the panic
SelectChannels(channel) ==
    IF channel # None
    THEN LET c == ChannelOf(channel[1]) IN
         IF c.ok THEN [ok |-> TRUE, channels |-> <<c.channel>>]
         ELSE [ok |-> FALSE, channels |-> <<>>]
    ELSE [ok |-> TRUE, channels |-> AllChannels]

\* the filter never applied
PassesFilter_ignored(port_filter, n) == TRUE

\* whether the port passes the name filter (no filter passes every port)
PassesFilter(port_filter, n) ==
    port_filter = None \/ Contains(n, port_filter[1])

\* a failed send ends the connection's loops (the error propagated with ?)
AfterSend_break(ok, chans, pos) ==
    IF ~ok THEN [chans |-> <<>>, pos |-> 1]
    ELSE IF pos < Len(data) THEN [chans |-> chans, pos |-> pos + 1]
    ELSE [chans |-> Tail(chans), pos |-> 1]

\* do_channel's position after a send whose result was `ok`: the result is
\* only logged, the loop goes on to the next pair, then to the next channel
AfterSend(ok, chans, pos) ==
    IF pos < Len(data) THEN [chans |-> chans, pos |-> pos + 1]
    ELSE [chans |-> Tail(chans), pos |-> 1]

----------------------------------------------------------------------------
\* Inputs.

TokenA == <<"5", ":", "0">>
TokenB == <<"2", "0", "0", ":", "2", "5", "5">>

Tokens ==
    { TokenA, TokenB, <<"2", "5", "6", ":", "0">>, <<"5", ":", "2", "5", "6">> }

RECURSIVE Join(_)
Join(ts) ==
    IF ts = <<>> THEN <<>>
    ELSE IF Len(ts) = 1 THEN ts[1]
    ELSE ts[1] \o <<" ">> \o Join(Tail(ts))

\* data strings of the main specification: up to MaxPairs tokens
DataInputs ==
    { Join(ts) : ts \in UNION { [1 .. n -> Tokens] : n \in 0 .. MaxPairs } }

\* data strings of the parser specification: every string up to MaxLen
AllStrings == UNION { [1 .. n -> Alphabet] : n \in 0 .. MaxLen }

ChannelArgs == {None} \cup { Some(n) : n \in 0 .. MaxChannelArg }

Filters == {None, Some(<<"a", "b">>)}

----------------------------------------------------------------------------
\* The program.

InitWith(strings, chans, filters, lists) ==
    /\ opts \in [data : strings, channel : chans, port_filter : filters]
    /\ data = <<>>
    /\ pc = "parse"
    /\ panicMsg = ""
    /\ platform \in lists
    /\ raced = FALSE
    /\ count = 0
    /\ port = 0
    /\ name = None
    /\ conn = None
    /\ todo = <<>>
    /\ k = 1
    /\ log = <<>>
    /\ visited = <<>>
    /\ errs = {}

\* every data string on channel 1, every channel argument (none included)
\* with a data string of three pairs, one of them repeated, and every filter
\* with a data string of two pairs on channel 1
Init ==
    \/ InitWith(DataInputs, {Some(1)}, {None}, PortLists)
    \/ InitWith({Join(<<TokenA, TokenB, TokenA>>)}, ChannelArgs, {None}, PortLists)
    \/ InitWith({Join(<<TokenA, TokenB>>)}, {Some(1)}, Filters, PortLists)

Panic(msg) ==
    /\ pc' = "panic"
    /\ panicMsg' = msg

\* the current port's iteration ends with `status`; on to the next index
NextPort(status, n) ==
    /\ visited' = Append(visited, [status |-> status, name |-> n])
    /\ name' = None
    /\ port' = port + 1
    /\ conn' = None
    /\ todo' = <<>>
    /\ k' = 1
    /\ pc' = "loop"

\* lines 130-133: the failed name lookup is logged, the port skipped
NameFailed ==
    /\ errs' = errs \cup {"name"}
    /\ NextPort("name_failed", None)

\* the connect result unwrapped: a failed connect panics
ConnectFailed_unwrap ==
    /\ Panic("Failed to connect")
    /\ UNCHANGED <<errs, visited, port, conn, todo, k, name>>

\* line 161: the failed connect is logged, the loop moves on
ConnectFailed ==
    /\ errs' = errs \cup {"connect"}
    /\ NextPort("connect_failed", name)
    /\ UNCHANGED panicMsg

\* main, lines 47-77: the arguments are parsed, the data string is scanned
\* and every token converted; any bad token panics before anything else
ParseData ==
    /\ pc = "parse"
    /\ LET r == ParsePairs(opts.data) IN
       IF r.ok
       THEN /\ data' = r.pairs
            /\ pc' = "open"
            /\ UNCHANGED panicMsg
       ELSE /\ Panic(r.msg)
            /\ UNCHANGED data
    /\ UNCHANGED <<opts, platform, raced, count, port, name, conn, todo, k,
                   log, visited, errs>>

\* main, lines 114-126: make_output() and the range 0..output.port_count()
OpenOutput ==
    /\ pc = "open"
    /\ \E ok \in BOOLEAN :
         IF ok
         THEN /\ count' = Len(platform)
              /\ port' = 0
              /\ pc' = "loop"
              /\ UNCHANGED panicMsg
         ELSE /\ Panic("Failed to open MIDI output")
              /\ UNCHANGED <<count, port>>
    /\ UNCHANGED <<opts, data, platform, raced, name, conn, todo, k, log,
                   visited, errs>>

\* main, lines 126-149: the name lookup and the filter for one port index
PortName ==
    /\ pc = "loop"
    /\ port < count
    /\ \E r \in PortNameResults(port) :
         IF ~r.ok
         THEN NameFailed
         ELSE IF ~PassesFilter(opts.port_filter, r.name)
         THEN /\ NextPort("filtered", Some(r.name))
              /\ UNCHANGED errs
         ELSE /\ name' = Some(r.name)
              /\ pc' = "connect"
              /\ UNCHANGED <<errs, visited, port, conn, todo, k>>
    /\ UNCHANGED <<opts, data, panicMsg, platform, raced, count, log>>

\* main, lines 157-162: a fresh MidiOutput replaces the one that connect
\* consumes; a failed connect is logged and the port skipped
Connect ==
    /\ pc = "connect"
    /\ \E fresh \in BOOLEAN :
         IF ~fresh
         THEN /\ Panic("Failed to open MIDI output")
              /\ UNCHANGED <<errs, visited, port, conn, todo, k, name>>
         ELSE \E r \in ConnectResults(port) :
                IF ~r.ok
                THEN ConnectFailed
                ELSE /\ conn' = Some(r.dev)
                     /\ pc' = "do_conn"
                     /\ UNCHANGED <<errs, visited, port, todo, k, name, panicMsg>>
    /\ UNCHANGED <<opts, data, platform, raced, count, log>>

\* do_conn, lines 93-110: the channel selection; with no pairs to send
\* every do_channel call returns at once and the connection is dropped
DoConn ==
    /\ pc = "do_conn"
    /\ LET sel == SelectChannels(opts.channel) IN
       IF ~sel.ok
       THEN /\ Panic("Channel exceeds maximum of 16")
            /\ UNCHANGED <<visited, port, conn, todo, k, name>>
       ELSE IF data = <<>>
       THEN /\ NextPort("connected", name)
            /\ UNCHANGED panicMsg
       ELSE /\ todo' = sel.channels
            /\ k' = 1
            /\ pc' = "send"
            /\ UNCHANGED <<visited, port, conn, panicMsg, name>>
    /\ UNCHANGED <<opts, data, platform, raced, count, log, errs>>

\* do_channel, lines 82-90: one conn.send; a failure is logged and ignored
Send ==
    /\ pc = "send"
    /\ \E ok \in BOOLEAN :
         LET next == AfterSend(ok, todo, k) IN
         /\ log' = Append(log, [port |-> port,
                                msg |-> Message(todo[1], data[k][1], data[k][2])])
         /\ errs' = IF ok THEN errs ELSE errs \cup {"send"}
         /\ IF next.chans = <<>>
            THEN NextPort("connected", name)
            ELSE /\ todo' = next.chans
                 /\ k' = next.pos
                 /\ UNCHANGED <<visited, port, conn, pc, name>>
    /\ UNCHANGED <<opts, data, panicMsg, platform, raced, count>>

\* main, line 163-164: the range is exhausted, main returns
Finish ==
    /\ pc = "loop"
    /\ port >= count
    /\ pc' = "done"
    /\ UNCHANGED <<opts, data, panicMsg, platform, raced, count, port, name,
                   conn, todo, k, log, visited, errs>>

\* the port list with the device at position i removed
Removed(l, i) == SubSeq(l, 1, i - 1) \o SubSeq(l, i + 1, Len(l))

\* the port list with device d inserted so that it gets position i
Inserted(l, i, d) == SubSeq(l, 1, i - 1) \o <<d>> \o SubSeq(l, i, Len(l))

\* the port list with the devices at positions i and j exchanged
Swapped(l, i, j) == [l EXCEPT ![i] = l[j], ![j] = l[i]]

\* the environment: a device appears, vanishes or two devices are renumbered
\* at any point between the port-count query, a name lookup and a connect
\* (a change while a connection is in use is seen by main only at its next
\* lookup, so it is taken there)
EnvChange ==
    /\ pc \in {"loop", "connect"}
    /\ \/ \E i \in 1 .. Len(platform) : platform' = Removed(platform, i)
       \/ /\ Len(platform) < MaxPorts
          /\ \E i \in 1 .. Len(platform) + 1 :
                \E d \in Devices \ {platform[j] : j \in 1 .. Len(platform)} :
                    platform' = Inserted(platform, i, d)
       \/ \E i, j \in 1 .. Len(platform) :
             i < j /\ platform' = Swapped(platform, i, j)
    /\ raced' = TRUE
    /\ UNCHANGED <<opts, data, pc, panicMsg, count, port, name, conn, todo, k,
                   log, visited, errs>>

Main == ParseData \/ OpenOutput \/ PortName \/ Connect \/ DoConn \/ Send \/ Finish

Next ==
    \/ ParseData
    \/ OpenOutput
    \/ PortName
    \/ Connect
    \/ DoConn
    \/ Send
    \/ Finish
    \/ EnvChange

Spec == Init /\ [][Next]_vars

\* the runs that race with the platform: one pair or none to send, on all
\* channels, on channel 1 or with a channel argument above the maximum,
\* every filter, every port list
InitRace ==
    InitWith({<<>>, TokenA}, {None, Some(1), Some(MaxChannelNumber + 1)},
             Filters, PortLists)

\* main is one sequential thread of blocking calls: it always takes its
\* next step
FairSpec == InitRace /\ [][Next]_vars /\ WF_vars(Main)

\* the parser alone, on every data string up to MaxLen
InitParse == InitWith(AllStrings, {None}, {None}, {<<>>})

SpecParse == InitParse /\ [][ParseData]_vars

----------------------------------------------------------------------------
\* Vocabulary of the properties.

IsPrefix(a, b) == Len(a) <= Len(b) /\ SubSeq(b, 1, Len(a)) = a

\* the messages handed to send on the connection of port index i, in order
MsgsOf(i) ==
    LET OnPort(e) == e.port = i
        sel == SelectSeq(log, OnPort)
    IN  [j \in 1 .. Len(sel) |-> sel[j].msg]

\* the number a string of decimal digits denotes
RECURSIVE Horner(_, _)
Horner(s, acc) ==
    IF s = <<>> THEN acc ELSE Horner(Tail(s), 10 * acc + DigitVal(Head(s)))

Denotes(s) == Horner(s, 0)

\* the channels the arguments select: all sixteen without a channel argument,
\* one for an argument up to 16, none above (the run aborts)
ExpectedChannels ==
    IF opts.channel = None THEN [i \in 1 .. 16 |-> i - 1]
    ELSE IF opts.channel[1] > 16 THEN <<>>
    ELSE IF opts.channel[1] <= 1 THEN <<0>>
    ELSE <<opts.channel[1] - 1>>

\* the full selected message set, channel-major: for each channel of chs in
\* turn, one message per parsed pair in the order of the pairs
ExpectedOn(chs) ==
    [j \in 1 .. Len(chs) * Len(data) |->
        <<176 + chs[((j - 1) \div Len(data)) + 1],
          data[((j - 1) % Len(data)) + 1][1],
          data[((j - 1) % Len(data)) + 1][2]>>]

ExpectedMsgs == ExpectedOn(ExpectedChannels)

ParsePanics == {"out of range", "could not be parsed"}

----------------------------------------------------------------------------
\* C1: every message handed to send is exactly three bytes, a status byte
\* 0xB0 + channel with channel in 0..15 (so within 0xB0..0xBF), then the
\* controller and the value of one parsed pair, in that order and unchanged.
C1_MessageFormat ==
    \A i \in 1 .. Len(log) :
        LET m == log[i].msg IN
        /\ Len(m) = 3
        /\ m[1] - 176 \in 0 .. 15
        /\ \E j \in 1 .. Len(data) : data[j] = <<m[2], m[3]>>
        /\ m[2] \in 0 .. 255 /\ m[3] \in 0 .. 255

\* a message on channel 15 carrying controller 200 and value 255 was sent
C1_Witness ==
    \E i \in 1 .. Len(log) : log[i].msg = <<191, 200, 255>>

\* C2: with a channel argument above 16 the process aborts, and does so
\* before any message is sent: no such run completes normally.
C2_AbortsAboveSixteen ==
    (opts.channel # None /\ opts.channel[1] > 16) => (pc # "done" /\ log = <<>>)

\* C3 as stated: at the end of the run, a port index whose name failed to
\* resolve or whose name does not contain the filter got no message, and
\* every other index of the range got the full selected message set.
C3_EveryOtherPortGetsAll ==
    pc = "done" =>
        \A i \in 0 .. count - 1 :
            LET v == visited[i + 1]
                skipped == \/ v.name = None
                           \/ /\ opts.port_filter # None
                              /\ ~Contains(v.name[1], opts.port_filter[1])
            IN  MsgsOf(i) = IF skipped THEN <<>> ELSE ExpectedMsgs

\* C3 amended: in a run that completes, an index whose name failed to resolve
\* or does not contain the filter got no message; of the other indexes, the
\* ones whose connect succeeded were handed the full selected message set
\* and the ones whose connect failed got no message.
C3_ConnectedPortsGetAll ==
    pc = "done" =>
        /\ Len(visited) = count
        /\ \A i \in 0 .. count - 1 :
            LET v == visited[i + 1]
                skipped == \/ v.name = None
                           \/ /\ opts.port_filter # None
                              /\ ~Contains(v.name[1], opts.port_filter[1])
            IN  /\ skipped => (MsgsOf(i) = <<>> /\ v.status \in {"name_failed", "filtered"})
                /\ ~skipped => /\ v.status \in {"connected", "connect_failed"}
                               /\ v.status = "connected" => MsgsOf(i) = ExpectedMsgs
                               /\ v.status = "connect_failed" => MsgsOf(i) = <<>>

\* index 0 was skipped by the filter, index 1 was connected and got all
C3_Witness ==
    /\ pc = "done"
    /\ count = 2
    /\ visited[1].status = "filtered"
    /\ visited[2].status = "connected"
    /\ MsgsOf(0) = <<>>
    /\ MsgsOf(1) = ExpectedMsgs
    /\ Len(ExpectedMsgs) > 1

\* C4: failures are logged and nothing else: whatever lookups, connects and
\* sends failed, every finished index that was connected has been handed its
\* full message sequence exactly once (nothing cut short, nothing retried),
\* the open connection is at the point its loop counters say, the ports are
\* served in index order, and a run that completes has visited every index.
C4_FailuresSkipNothing ==
    /\ Len(visited) = port
    /\ LET full == ExpectedMsgs IN
       \A i \in 1 .. Len(visited) :
          MsgsOf(i - 1) = IF visited[i].status = "connected" THEN full ELSE <<>>
    /\ \A i \in 1 .. Len(log) - 1 : log[i].port <= log[i + 1].port
    /\ pc \in {"loop", "connect", "do_conn"} => MsgsOf(port) = <<>>
    /\ pc = "send" =>
          LET cur == MsgsOf(port) IN
          /\ IsPrefix(cur, ExpectedMsgs)
          /\ Len(cur) + (Len(todo) - 1) * Len(data) + (Len(data) - k + 1)
                = Len(ExpectedMsgs)
    /\ pc = "done" => port = count

\* the connect to index 0 failed, index 1 was connected all the same, its
\* first send failed and the loop stands at its second message
C4_Witness ==
    /\ pc = "send"
    /\ port = 1
    /\ visited[1].status = "connect_failed"
    /\ Len(log) = 1
    /\ errs = {"connect", "send"}
    /\ k = 2

\* C5: without a channel argument every connection is handed, channel by
\* channel for the 16 channels 0..15 in ascending order, the parsed pairs in
\* the order of the data string, duplicates included.
C5_AllChannelsInOrder ==
    opts.channel = None =>
        /\ data = <<>> \/ data = ParsePairs(opts.data).pairs
        /\ \A i \in 1 .. Len(visited) :
              visited[i].status = "connected" =>
                  MsgsOf(i - 1) =
                      [j \in 1 .. 16 * Len(data) |->
                          <<176 + ((j - 1) \div Len(data)),
                            data[((j - 1) % Len(data)) + 1][1],
                            data[((j - 1) % Len(data)) + 1][2]>>]
        /\ pc = "send" =>
              LET cur == MsgsOf(port) IN
              /\ todo = [j \in 1 .. Len(todo) |-> 16 - Len(todo) + j - 1]
              /\ cur = [j \in 1 .. Len(cur) |->
                          <<176 + ((j - 1) \div Len(data)),
                            data[((j - 1) % Len(data)) + 1][1],
                            data[((j - 1) % Len(data)) + 1][2]>>]

\* a connection got the three pairs (one repeated) on all 16 channels
C5_Witness ==
    /\ pc = "done"
    /\ opts.channel = None
    /\ data = <<<<5, 0>>, <<200, 255>>, <<5, 0>>>>
    /\ \E i \in 1 .. Len(visited) :
          visited[i].status = "connected" /\ Len(MsgsOf(i - 1)) = 48

\* C6: with a channel argument n in 0..16 every message of every connection
\* is on one channel, 0 for n = 0 and n = 1 and n - 1 for n >= 2, and the
\* connection is handed exactly the parsed pairs in order on that channel.
C6_SingleChannel ==
    (opts.channel # None /\ opts.channel[1] <= 16) =>
        LET n == opts.channel[1]
            status == IF n = 0 \/ n = 1 THEN 176 ELSE 176 + n - 1
        IN  /\ \A i \in 1 .. Len(log) : log[i].msg[1] = status
            /\ \A i \in 1 .. Len(visited) :
                  visited[i].status = "connected" =>
                      MsgsOf(i - 1) =
                          [j \in 1 .. Len(data) |-> <<status, data[j][1], data[j][2]>>]

\* channel argument 0: a connection got its pairs on channel 0
C6_Witness ==
    /\ pc = "done"
    /\ opts.channel = Some(0)
    /\ \E i \in 1 .. Len(visited) :
          /\ visited[i].status = "connected"
          /\ MsgsOf(i - 1) = <<<<176, 5, 0>>, <<176, 200, 255>>, <<176, 5, 0>>>>

\* C7: when every matched token denotes an integer in [0,255] the parsed
\* pairs are exactly those integers (128..255 included); when some matched
\* token does not, the process panics in the parser, before any port is
\* counted, looked up or connected to and before any message is sent.
\* (Stated of the states right after the parser and of the final states of
\* a run: what a run did in between shows in its final state.)
C7_ParseOrAbort ==
    pc \in {"open", "panic", "done"} =>
        LET caps == captures_iter(opts.data, 1)
            bad == \E i \in 1 .. Len(caps) :
                        Denotes(caps[i].cc) > 255 \/ Denotes(caps[i].value) > 255
        IN  IF bad
            THEN /\ pc = "panic"
                 /\ panicMsg \in ParsePanics
                 /\ count = 0 /\ port = 0 /\ visited = <<>> /\ conn = None
                 /\ log = <<>> /\ errs = {}
            ELSE /\ panicMsg \notin ParsePanics
                 /\ data = [i \in 1 .. Len(caps) |->
                              <<Denotes(caps[i].cc), Denotes(caps[i].value)>>]

\* the second token is out of range, the first was valid: parser panic
C7_Witness ==
    /\ pc = "panic"
    /\ panicMsg = "out of range"
    /\ opts.data = <<"5", ":", "0", " ", "2", "5", "6", ":", "0">>
    /\ log = <<>>

\* the strings a separator is replaced by: runs of characters that are
\* neither digits nor colons
ReplacementRuns == { <<",">>, <<" ", " ">>, <<"x", ",">>, <<"-">> }

\* C8: for a valid data string the pairs are the matches in left-to-right
\* order, one pair per match, and replacing the text between two consecutive
\* matches by any non-empty run of non-digit, non-colon characters leaves
\* the parsed pairs unchanged.
C8_SeparatorsDoNotMatter ==
    pc = "open" =>
        LET s == opts.data
            caps == captures_iter(s, 1)
        IN  /\ Len(data) = Len(caps)
            /\ \A i \in 1 .. Len(caps) :
                  /\ data[i] = <<Denotes(caps[i].cc), Denotes(caps[i].value)>>
                  /\ i < Len(caps) => caps[i].end < caps[i + 1].start
            /\ \A i \in 1 .. Len(caps) - 1 : \A r \in ReplacementRuns :
                  ParsePairs(SubSeq(s, 1, caps[i].end - 1) \o r
                             \o SubSeq(s, caps[i + 1].start, Len(s)))
                      = [ok |-> TRUE, msg |-> "", pairs |-> data]

\* "5:0 2:5" parsed to its two pairs in order
C8_Witness ==
    /\ pc = "open"
    /\ opts.data = <<"5", ":", "0", " ", "2", ":", "5">>
    /\ data = <<<<5, 0>>, <<2, 5>>>>

\* a string of the shape <digits>:<digits> with both numbers in [0,255]
IsValidToken(t) ==
    \E q \in 2 .. Len(t) - 1 :
        /\ t[q] = Colon
        /\ \A j \in 1 .. Len(t) : j # q => IsDigit(t[j])
        /\ Denotes(SubSeq(t, 1, q - 1)) <= 255
        /\ Denotes(SubSeq(t, q + 1, Len(t))) <= 255

ColonAt(t) == CHOOSE q \in 1 .. Len(t) : t[q] = Colon

\* data strings made of two valid tokens with nothing between them, as the
\* set of places where the first token ends
TokenSplits(s) ==
    { p \in 1 .. Len(s) - 1 :
        IsValidToken(SubSeq(s, 1, p)) /\ IsValidToken(SubSeq(s, p + 1, Len(s))) }

====
